---- MODULE Spec2Model ----
(***************************************************************************)
(* SaveBackupManager of backup.py: the save directory, the backup root     *)
(* with its backup_<timestamp> directories, and the operations             *)
(* create_backup, restore_backup, delete_backup and cleanup_backups.        *)
(*                                                                         *)
(* The manager is constructed with an explicit backup_dir outside the save *)
(* directory.  A snapshot name backup_<YYYYMMDD_HHMMSS> is modelled by the *)
(* integer second it was taken in: the names are fixed width, so the       *)
(* string order that sorted() uses is the integer order.                   *)
(***************************************************************************)
EXTENDS Integers, Sequences, FiniteSets, TLC

\* ---------------------------------------------------------------- bounds
MaxTime == 3
MaxBackupsLimit == 2
MaxCalls == 3
MaxEdits == 1
MaxThreads == 2
MaxNameLen == 4
MaxEntries == 2
MaxDepth == 2

\* ------------------------------------------------------------ file trees
\* Top-level entries a save directory may hold.  "x.tmp" and "backups" are
\* the names the ignore patterns of create_backup match.
Names == {"a.txt", "b.txt", "x.tmp", "backups", "slot"}
NoEntry == "none"
FileVals == {"v1", "v2"}

\* What the game (or the user) may put under each name: a file with some
\* content, or, for "backups" and "slot", an empty directory.
EntryVals(n) ==
    IF n = "a.txt" THEN {"v1", "v2"}
    ELSE IF n \in {"backups", "slot"} THEN {"dir"}
    ELSE {"v1"}

IsFile(v) == v \in FileVals
EmptyTree == [n \in Names |-> NoEntry]
Entries(tree) == {n \in Names : tree[n] # NoEntry}

SnapNames == 1..MaxTime
NoPath == 0
\* Python's None where an integer is expected.
NoneValue == -1

VARIABLES
    save,         \* the save directory: entry name -> content
    root,         \* the backup root: snapshot name -> snapshot directory
    now,          \* the wall clock, in seconds
    max_backups,  \* self.max_backups
    pc,           \* where the running operation stands
    cur,          \* locals of the running create_backup
    sel,          \* locals of the running restore_backup / delete_backup
    ret,          \* what the last call returned, and what happened in it
    pre,          \* the snapshot names in the backup root when the last call started
    run,          \* the successful create_backup calls made since an empty root
    calls,        \* how many operations the user has called
    edits,        \* how many times the game has written the save directory
    call,         \* the last call: the operation and its backup_choice
    is_operation_running,  \* BackupManagerGUI.is_operation_running (DearPyGui)
    confirm_dialog,        \* the open "confirm_dialog" window and its callback
    threads,               \* the worker threads of the DearPyGui front-end
    backup_list,           \* Kivy: names of the BackupItemWidgets, in order
    popup,                 \* Kivy: the open ConfirmationPopup and its backup_data
    backup_thread,         \* Kivy: whether backup_thread of create_backup runs
    refresh_scheduled,     \* Kivy: Clock.schedule_once(refresh_backup_list) pending
    entries,               \* list_backups: what follows "backup_" in each glob match
    listed,                \* list_backups: what it printed and returned
    config_file,           \* games_config.json: whether it exists, its text,
                           \* and whether open(config_path, 'w') succeeds
    loaded,                \* what the last load_games_config returned
    saved                  \* the last save_games_config: its argument, and
                           \* whether it wrote the file

managervars == <<save, root, now, max_backups, pc, cur, sel, ret, pre, run,
                 calls, edits, call>>
dpgvars == <<is_operation_running, confirm_dialog, threads>>
kivyvars == <<backup_list, popup, backup_thread, refresh_scheduled>>
listvars == <<entries, listed>>
configvars == <<config_file, loaded, saved>>
restvars == <<dpgvars, kivyvars, listvars, configvars>>
vars == <<managervars, restvars>>

\* ----------------------------------------------------------- pure helpers
file_count_counting_top(tree) == Cardinality({n \in Names : tree[n] \in FileVals}) + 1

\* sum(len(files) for _, _, files in os.walk(d)): the regular files of a tree.
file_count(tree) == Cardinality({n \in Names : IsFile(tree[n])})

\* shutil.ignore_patterns("backups", "*.pyc", "__pycache__", "*.tmp")
ignored(n) == n \in {"backups", "x.tmp"}

RECURSIVE SortDesc(_)
SortDesc(S) ==
    IF S = {} THEN <<>>
    ELSE LET m == CHOOSE x \in S : \A y \in S : y <= x
         IN <<m>> \o SortDesc(S \ {m})

RECURSIVE SortAsc(_)
SortAsc(S) ==
    IF S = {} THEN <<>>
    ELSE LET m == CHOOSE x \in S : \A y \in S : x <= y
         IN <<m>> \o SortAsc(S \ {m})

get_backup_list_ascending(r) == SortAsc(DOMAIN r)

\* sorted(glob.glob(backup_dir / "backup_*"), reverse=True)
get_backup_list(r) == SortDesc(DOMAIN r)

backups_to_delete_off_by_one(backups, keep) == SubSeq(backups, keep + 2, Len(backups))

\* backups[self.max_backups:]
backups_to_delete(backups, keep) == SubSeq(backups, keep + 1, Len(backups))

Range(s) == {s[i] : i \in 1..Len(s)}

invalid_choice_below_zero(choice, backups) ==
    choice < 0 \/ choice > Len(backups)

\* if backup_choice < 1 or backup_choice > len(backups) (lines 483, 580)
invalid_choice(choice, backups) ==
    choice < 1 \/ choice > Len(backups)

chosen_backup_off_by_one(backups, choice) ==
    IF choice < Len(backups) THEN backups[choice + 1] ELSE backups[1]

\* backups[backup_choice - 1] (lines 486, 583); a negative Python index
\* counts from the end of the list.
chosen_backup(backups, choice) ==
    IF choice >= 1 THEN backups[choice] ELSE backups[Len(backups) + choice]

\* A snapshot directory: the copied entries, the .backup_description
\* sidecar, the .backup_meta.json sidecar (its move_method), and whether the
\* directory holds every entry the copy was to bring over.
Snapshot(tree, desc, meta, full) ==
    [tree |-> tree, desc |-> desc, meta |-> meta, full |-> full]

NoCur == [name |-> NoPath, todo |-> {}, want |-> EmptyTree, errors |-> FALSE,
          description |-> "none", caller |-> "none", exdev |-> FALSE,
          movefails |-> FALSE, raised |-> FALSE, srcEmpty |-> FALSE,
          selected |-> {}, counter |-> 0, file_count |-> 0]
NoSel == [chosen |-> NoPath, current_backup |-> NoPath,
          backups_to_delete |-> <<>>]
NoRet == [op |-> "none", status |-> "none", path |-> NoPath, value |-> FALSE,
          skip |-> FALSE, chosen |-> NoPath, srcEmpty |-> FALSE,
          copyRaised |-> FALSE, delFailed |-> {}, exdev |-> FALSE,
          movefails |-> FALSE, caller |-> "none", safety |-> "none",
          at |-> "none", selected |-> {}, count |-> NoneValue,
          progress |-> <<0, 0>>]
NoCall == [op |-> "none", choice |-> 0, skip |-> FALSE]
NoRun == [ok |-> FALSE, clean |-> TRUE, created |-> <<>>]

Restrict(r, S) == [n \in S |-> r[n]]

\* The entries shutil.copytree brings over: everything the ignore patterns
\* do not match.
CopyOf(tree) == [n \in Names |-> IF ignored(n) THEN NoEntry ELSE tree[n]]

backup_path_exists_never(r, name) == FALSE

\* os.makedirs(dst, exist_ok=False) at the start of shutil.copytree (line
\* 378) raises FileExistsError when backup_<timestamp> is already there.
backup_path_exists(r, name) == name \in DOMAIN r

removed_until_first_failure(toDelete, failed) ==
    {b \in toDelete : \A f \in failed : b > f}

\* for backup_path in backups_to_delete: try: shutil.rmtree(backup_path)
\* except Exception (lines 332-338, 623-629): what the loop removes when
\* the entries in failed resist.
removed_by_loop(toDelete, failed) == toDelete \ failed

HasNoFiles(tree) == \A n \in Names : tree[n] \notin FileVals

\* No front-end runs: the manager is driven from the command line.
Threads == 1..MaxThreads
NoThread == [pc |-> "none", op |-> "none"]
NoPopup == [op |-> "none", name |-> NoPath, index |-> 0]
NoDpg ==
    /\ is_operation_running = FALSE
    /\ confirm_dialog = "none"
    /\ threads = [t \in Threads |-> NoThread]
NoKivy ==
    /\ backup_list = << >>
    /\ popup = NoPopup
    /\ backup_thread = FALSE
    /\ refresh_scheduled = FALSE
NoListing == [status |-> "none", returned |-> << >>, rows |-> << >>]
NoList ==
    /\ entries = {}
    /\ listed = NoListing
\* A JSON value as Python holds it: a str, an int, a bool or a dict with
\* str keys.  v is the text of a scalar, items the entries of a dict.
NoItems == << >>
JScalar(t, v) == [t |-> t, v |-> v, items |-> NoItems]
JDict(f) == [t |-> "dict", v |-> "", items |-> f]
NoConfig == [t |-> "none", v |-> "", items |-> NoItems]
NoLoaded == [status |-> "none", config |-> NoConfig, created |-> FALSE,
             wrote |-> FALSE]
NoSaved == [config |-> NoConfig, wrote |-> FALSE]
NoFile == [exists |-> FALSE, text |-> << >>, writable |-> TRUE]
NoConfigFile ==
    /\ config_file = NoFile
    /\ loaded = NoLoaded
    /\ saved = NoSaved
NoGui == NoDpg /\ NoKivy /\ NoList /\ NoConfigFile

\* ------------------------------------------------------------------ Init
\* The backup root may already hold snapshots (made by earlier runs or put
\* there by hand, as test_restore_backup does), under any timestamps.
PriorTree == [n \in Names |-> IF n = "a.txt" THEN "v2" ELSE NoEntry]

Init ==
    /\ \E F \in {{"a.txt"}, {"x.tmp"}} :
          save = [n \in Names |-> IF n \in F THEN "v1" ELSE NoEntry]
    /\ \E S \in SUBSET SnapNames :
          root = [n \in S |-> Snapshot(PriorTree, "none", "none", TRUE)]
    /\ now = 1
    /\ max_backups \in 1..MaxBackupsLimit
    /\ pc = "idle"
    /\ cur = NoCur
    /\ sel = NoSel
    /\ ret = NoRet
    /\ pre = DOMAIN root
    /\ run = [ok |-> (root = << >>), clean |-> TRUE, created |-> <<>>]
    /\ calls = 0
    /\ edits = 0
    /\ call = NoCall
    /\ NoGui

\* --------------------------------------------------------- create_backup
CreateReturn_restore_aborts(who, path, c, failed) ==
    /\ cur' = NoCur
    /\ IF who = "restore" /\ path = NoPath
       THEN /\ pc' = "idle"
            /\ sel' = NoSel
            /\ run' = NoRun
            /\ ret' = [NoRet EXCEPT !.op = "restore", !.status = "returned",
                                    !.value = FALSE, !.chosen = sel.chosen,
                                    !.safety = "failed", !.at = pc]
       ELSE /\ ret' = [NoRet EXCEPT !.op = "create", !.status = "returned",
                                    !.path = path, !.caller = who,
                                    !.chosen = sel.chosen]
            /\ pc' = IF who = "restore" THEN "restore_remove" ELSE "idle"
            /\ sel' = IF who = "restore"
                      THEN [sel EXCEPT !.current_backup = path] ELSE NoSel
            /\ run' = NoRun

\* The return of create_backup: to the user, or into restore_backup, which
\* called it for the safety backup (line 513).
CreateReturn(who, path, c, failed) ==
    /\ cur' = NoCur
    /\ ret' = [NoRet EXCEPT !.op = "create", !.status = "returned",
                            !.path = path, !.srcEmpty = c.srcEmpty,
                            !.copyRaised = c.raised, !.delFailed = failed,
                            !.exdev = c.exdev, !.movefails = c.movefails,
                            !.caller = who, !.selected = c.selected,
                            !.progress = <<c.counter, c.file_count>>,
                            !.chosen = sel.chosen]
    /\ IF who = "restore"
       THEN /\ pc' = "restore_remove"
            /\ sel' = [sel EXCEPT !.current_backup = path]
            /\ run' = NoRun
       ELSE /\ pc' = "idle"
            /\ sel' = NoSel
            /\ run' = IF run.ok /\ path # NoPath
                      THEN [run EXCEPT !.created = Append(@, path),
                                       !.clean = @ /\ failed = {}]
                      ELSE NoRun

\* Lines 347-383, up to the os.makedirs(backup_path) that shutil.copytree
\* starts with.
CreateStart(description, who, exdev, movefails) ==
    LET c == [NoCur EXCEPT !.name = now, !.description = description,
                           !.caller = who, !.exdev = exdev,
                           !.movefails = movefails,
                           !.srcEmpty = HasNoFiles(save),
                           !.file_count = file_count(save),
                           !.want = CopyOf(save),
                           !.todo = Entries(CopyOf(save))]
    IN  IF file_count(save) = 0
        THEN \* "No files found in save directory"
             /\ CreateReturn(who, NoPath, c, {})
             /\ UNCHANGED root
        ELSE IF backup_path_exists(root, now)
        THEN \* FileExistsError from os.makedirs, caught at line 401
             /\ CreateReturn(who, NoPath, c, {})
             /\ UNCHANGED root
        ELSE /\ root' = [n \in DOMAIN root \cup {now} |->
                           IF n = now
                           THEN Snapshot(EmptyTree, "none", "none",
                                         c.want = EmptyTree)
                           ELSE root[n]]
             /\ cur' = c
             /\ pc' = "copy"
             /\ ret' = NoRet
             /\ UNCHANGED <<sel, run>>

\* create_backup(description) called by the user.  exdev says whether
\* os.replace inside the backup root would fail with EXDEV during this call,
\* movefails whether shutil.move would fail as well.
CreateBackup(description, exdev, movefails) ==
    /\ pc = "idle"
    /\ calls < MaxCalls
    /\ calls' = calls + 1
    /\ call' = [NoCall EXCEPT !.op = "create"]
    /\ UNCHANGED edits
    /\ pre' = DOMAIN root
    /\ movefails => exdev
    /\ CreateStart(description, "user", exdev, movefails)
    /\ UNCHANGED <<save, now, max_backups>>
    /\ UNCHANGED restvars

\* copy_with_progress (lines 371-375) is called for a regular file: it
\* counts the file and reports before shutil.copy2 runs.  A directory is
\* made by copytree itself.
counter_after(c, n) == IF IsFile(save[n]) THEN c.counter + 1 ELSE c.counter

\* copytree brings over one entry.
CopyFile(n) ==
    /\ pc = "copy"
    /\ n \in cur.todo
    /\ LET t == [root[cur.name].tree EXCEPT ![n] = save[n]]
       IN root' = [root EXCEPT ![cur.name].tree = t,
                               ![cur.name].full = (t = cur.want)]
    /\ cur' = [cur EXCEPT !.todo = @ \ {n}, !.counter = counter_after(cur, n)]
    /\ UNCHANGED <<save, now, max_backups, pc, sel, ret, pre, run>>
    /\ UNCHANGED <<calls, edits, call>>
    /\ UNCHANGED restvars

\* The copy of one file raises OSError: copytree records it, goes on with
\* the other entries and raises shutil.Error at the end.
CopyFileOSError(n) ==
    /\ pc = "copy"
    /\ n \in cur.todo
    /\ cur' = [cur EXCEPT !.todo = @ \ {n}, !.errors = TRUE, !.raised = TRUE,
                          !.counter = counter_after(cur, n)]
    /\ UNCHANGED <<save, root, now, max_backups, pc, sel, ret, pre, run>>
    /\ UNCHANGED <<calls, edits, call>>
    /\ UNCHANGED restvars

\* The copy of one file raises anything else: copytree lets it through and
\* create_backup catches it at line 401.
CopyFileRaises(n) ==
    /\ pc = "copy"
    /\ n \in cur.todo
    /\ CreateReturn(cur.caller, NoPath,
                    [cur EXCEPT !.raised = TRUE,
                                !.counter = counter_after(cur, n)], {})
    /\ UNCHANGED <<save, root, now, max_backups, pre>>
    /\ UNCHANGED <<calls, edits, call>>
    /\ UNCHANGED restvars

\* copytree ends with shutil.Error when some copy failed.
CreateFinishError ==
    /\ pc = "copy"
    /\ cur.todo = {}
    /\ cur.errors
    /\ CreateReturn(cur.caller, NoPath, cur, {})
    /\ UNCHANGED <<save, root, now, max_backups, pre>>
    /\ UNCHANGED <<calls, edits, call>>
    /\ UNCHANGED restvars

\* _cleanup_old_backups (lines 326-338) on the backup root r: the entries
\* it selects, of which those in failed resist shutil.rmtree.
cleanup_selection(r, keep) ==
    LET backups == get_backup_list(r)
    IN  IF Len(backups) > keep
        THEN Range(backups_to_delete(backups, keep))
        ELSE {}

\* Lines 385-399: the description sidecar, the retention cleanup, return.
CreateFinish ==
    /\ pc = "copy"
    /\ cur.todo = {}
    /\ ~cur.errors
    /\ LET r1 == IF cur.description # "none"
                 THEN [root EXCEPT ![cur.name].desc = cur.description]
                 ELSE root
           toDelete == cleanup_selection(r1, max_backups)
       IN \E failed \in SUBSET toDelete :
            /\ root' = Restrict(r1, DOMAIN r1 \ removed_by_loop(toDelete, failed))
            /\ CreateReturn(cur.caller, cur.name,
                            [cur EXCEPT !.selected = toDelete], failed)
    /\ UNCHANGED <<save, now, max_backups, pre>>
    /\ UNCHANGED <<calls, edits, call>>
    /\ UNCHANGED restvars

\* -------------------------------------------------------- restore_backup
\* The return of restore_backup or delete_backup.
OpReturn(op, value, chosen) ==
    /\ pc' = "idle"
    /\ cur' = NoCur
    /\ sel' = NoSel
    /\ run' = NoRun
    /\ ret' = [NoRet EXCEPT !.op = op, !.status = "returned",
                            !.value = value, !.chosen = chosen, !.at = pc,
                            !.safety =
                                IF pc \notin {"restore_remove", "restore_copy"}
                                THEN "none"
                                ELSE IF sel.current_backup = NoPath
                                THEN "failed" ELSE "made"]

\* def restore_backup(self, backup_choice=None) (line 458) and
\* def delete_backup(self, backup_choice=None) (line 555) take no
\* skip_confirmation argument: a call that passes one raises TypeError
\* before the body runs.
CallWithSkipConfirmation(op, choice) ==
    /\ pc = "idle"
    /\ calls < MaxCalls
    /\ calls' = calls + 1
    /\ call' = [op |-> op, choice |-> choice, skip |-> TRUE]
    /\ UNCHANGED edits
    /\ choice \in 1..MaxTime
    /\ pre' = DOMAIN root
    /\ ret' = [NoRet EXCEPT !.op = op, !.status = "TypeError", !.skip = TRUE]
    /\ run' = NoRun
    /\ UNCHANGED <<save, root, now, max_backups, pc, cur, sel>>
    /\ UNCHANGED restvars

\* Lines 460-486 with a numeric backup_choice that the list does not hold.
RestoreInvalid(choice) ==
    /\ pc = "idle"
    /\ calls < MaxCalls
    /\ calls' = calls + 1
    /\ call' = [NoCall EXCEPT !.op = "restore", !.choice = choice]
    /\ UNCHANGED edits
    /\ LET backups == get_backup_list(root)
       IN  backups = <<>> \/ invalid_choice(choice, backups)
    /\ pre' = DOMAIN root
    /\ OpReturn("restore", FALSE, NoPath)
    /\ UNCHANGED <<save, root, now, max_backups>>
    /\ UNCHANGED restvars

\* Lines 460-505: the choice is resolved, then input() asks for confirmation.
RestoreBegin(choice) ==
    /\ pc = "idle"
    /\ calls < MaxCalls
    /\ calls' = calls + 1
    /\ call' = [NoCall EXCEPT !.op = "restore", !.choice = choice]
    /\ UNCHANGED edits
    /\ LET backups == get_backup_list(root)
       IN  /\ backups # <<>>
           /\ ~invalid_choice(choice, backups)
           /\ sel' = [NoSel EXCEPT !.chosen = chosen_backup(backups, choice)]
    /\ pc' = "confirm_restore"
    /\ pre' = DOMAIN root
    /\ ret' = NoRet
    /\ run' = NoRun
    /\ UNCHANGED <<save, root, now, max_backups, cur>>
    /\ UNCHANGED restvars

\* Lines 506-508: anything but "y" cancels.
RestoreCancelled ==
    /\ pc = "confirm_restore"
    /\ OpReturn("restore", FALSE, sel.chosen)
    /\ UNCHANGED <<save, root, now, max_backups, pre>>
    /\ UNCHANGED <<calls, edits, call>>
    /\ UNCHANGED restvars

RestoreConfirmed_no_safety(exdev) ==
    /\ pc = "confirm_restore"
    /\ pc' = "restore_remove"
    /\ ret' = NoRet
    /\ UNCHANGED <<save, root, now, max_backups, cur, sel, pre, run>>
    /\ UNCHANGED <<calls, edits, call>>
    /\ UNCHANGED restvars

\* Lines 506-513: "y", then the safety backup of the current state.
RestoreConfirmed(exdev) ==
    /\ pc = "confirm_restore"
    /\ CreateStart("safety", "restore", exdev, FALSE)
    /\ UNCHANGED <<save, now, max_backups, pre>>
    /\ UNCHANGED <<calls, edits, call>>
    /\ UNCHANGED restvars

\* The entries the removal loop of lines 517-522 deletes: every entry whose
\* name is not "backups".
removal_candidates(tree) == {n \in Entries(tree) : n # "backups"}

\* Lines 515-522, every removal succeeding.
RestoreRemove ==
    /\ pc = "restore_remove"
    /\ save' = [n \in Names |->
                  IF n \in removal_candidates(save) THEN NoEntry ELSE save[n]]
    /\ pc' = "restore_copy"
    /\ UNCHANGED <<root, now, max_backups, cur, sel, ret, pre, run>>
    /\ UNCHANGED <<calls, edits, call>>
    /\ UNCHANGED restvars

\* Lines 515-522, a removal raising after those in removed went through.
RestoreRemoveFails(removed) ==
    /\ pc = "restore_remove"
    /\ removed \subseteq removal_candidates(save)
    /\ removed # removal_candidates(save)
    /\ save' = [n \in Names |-> IF n \in removed THEN NoEntry ELSE save[n]]
    /\ OpReturn("restore", FALSE, sel.chosen)
    /\ UNCHANGED <<root, now, max_backups, pre>>
    /\ UNCHANGED <<calls, edits, call>>
    /\ UNCHANGED restvars

\* files_to_restore of line 527: every file of the snapshot directory, the
\* sidecars included.
files_to_restore(snap) ==
    file_count(snap.tree) + (IF snap.desc # "none" THEN 1 ELSE 0)
                          + (IF snap.meta # "none" THEN 1 ELSE 0)

\* show_progress(files_restored, files_to_restore) after the first item
\* divides by files_to_restore (line 54).
progress_divides_by_zero(snap) ==
    Entries(snap.tree) # {} /\ files_to_restore(snap) = 0

\* Lines 524-549, every item copied.
RestoreCopy ==
    /\ pc = "restore_copy"
    /\ sel.chosen \in DOMAIN root
    /\ ~progress_divides_by_zero(root[sel.chosen])
    /\ save' = [n \in Names |->
                  IF root[sel.chosen].tree[n] # NoEntry
                  THEN root[sel.chosen].tree[n] ELSE save[n]]
    /\ OpReturn("restore", TRUE, sel.chosen)
    /\ UNCHANGED <<root, now, max_backups, pre>>
    /\ UNCHANGED <<calls, edits, call>>
    /\ UNCHANGED restvars

\* Lines 524-553, the walk of the snapshot or a copy raising after the items
\* in copied went through; the snapshot may be gone by now.
RestoreCopyFails(copied) ==
    /\ pc = "restore_copy"
    /\ IF sel.chosen \in DOMAIN root
       THEN /\ copied \subseteq Entries(root[sel.chosen].tree)
            /\ \/ copied # Entries(root[sel.chosen].tree)
               \/ progress_divides_by_zero(root[sel.chosen])
            /\ save' = [n \in Names |->
                          IF n \in copied
                          THEN root[sel.chosen].tree[n] ELSE save[n]]
       ELSE /\ copied = {}
            /\ save' = save
    /\ OpReturn("restore", FALSE, sel.chosen)
    /\ UNCHANGED <<root, now, max_backups, pre>>
    /\ UNCHANGED <<calls, edits, call>>
    /\ UNCHANGED restvars

\* --------------------------------------------------------- delete_backup
\* Lines 557-583 with a numeric backup_choice that the list does not hold.
DeleteInvalid(choice) ==
    /\ pc = "idle"
    /\ calls < MaxCalls
    /\ calls' = calls + 1
    /\ call' = [NoCall EXCEPT !.op = "delete", !.choice = choice]
    /\ UNCHANGED edits
    /\ LET backups == get_backup_list(root)
       IN  backups = <<>> \/ invalid_choice(choice, backups)
    /\ pre' = DOMAIN root
    /\ OpReturn("delete", FALSE, NoPath)
    /\ UNCHANGED <<save, root, now, max_backups>>
    /\ UNCHANGED restvars

\* Lines 557-592: the choice is resolved, then input() asks for confirmation.
DeleteBegin(choice) ==
    /\ pc = "idle"
    /\ calls < MaxCalls
    /\ calls' = calls + 1
    /\ call' = [NoCall EXCEPT !.op = "delete", !.choice = choice]
    /\ UNCHANGED edits
    /\ LET backups == get_backup_list(root)
       IN  /\ backups # <<>>
           /\ ~invalid_choice(choice, backups)
           /\ sel' = [NoSel EXCEPT !.chosen = chosen_backup(backups, choice)]
    /\ pc' = "confirm_delete"
    /\ pre' = DOMAIN root
    /\ ret' = NoRet
    /\ run' = NoRun
    /\ UNCHANGED <<save, root, now, max_backups, cur>>
    /\ UNCHANGED restvars

\* Lines 593-595: anything but "y" cancels.
DeleteCancelled ==
    /\ pc = "confirm_delete"
    /\ OpReturn("delete", FALSE, sel.chosen)
    /\ UNCHANGED <<save, root, now, max_backups, pre>>
    /\ UNCHANGED <<calls, edits, call>>
    /\ UNCHANGED restvars

\* Lines 597-600: shutil.rmtree of the chosen snapshot.
DeleteConfirmed ==
    /\ pc = "confirm_delete"
    /\ root' = Restrict(root, DOMAIN root \ {sel.chosen})
    /\ OpReturn("delete", TRUE, sel.chosen)
    /\ UNCHANGED <<save, now, max_backups, pre>>
    /\ UNCHANGED <<calls, edits, call>>
    /\ UNCHANGED restvars

\* Lines 601-603: shutil.rmtree raises.
DeleteFails ==
    /\ pc = "confirm_delete"
    /\ OpReturn("delete", FALSE, sel.chosen)
    /\ UNCHANGED <<save, root, now, max_backups, pre>>
    /\ UNCHANGED <<calls, edits, call>>
    /\ UNCHANGED restvars

\* -------------------------------------------------------- cleanup_backups
\* The return of cleanup_backups: every return of lines 605-629 is a bare
\* return or the end of the function, so the value is None.
CleanupReturn(selected, failed) ==
    /\ pc' = "idle"
    /\ cur' = NoCur
    /\ sel' = NoSel
    /\ run' = NoRun
    /\ ret' = [NoRet EXCEPT !.op = "cleanup", !.status = "returned",
                            !.count = NoneValue, !.at = pc,
                            !.selected = selected, !.delFailed = failed]

\* Lines 605-618: keep_count defaults to max_backups; nothing to do when
\* the list is not longer than keep_count, else input() asks to continue.
CleanupBackups(keep_count) ==
    /\ pc = "idle"
    /\ calls < MaxCalls
    /\ calls' = calls + 1
    /\ call' = [NoCall EXCEPT !.op = "cleanup", !.choice = keep_count]
    /\ UNCHANGED edits
    /\ pre' = DOMAIN root
    /\ LET keep == IF keep_count = NoneValue THEN max_backups ELSE keep_count
           backups == get_backup_list(root)
       IN  IF Len(backups) <= keep
           THEN CleanupReturn({}, {})
           ELSE /\ sel' = [NoSel EXCEPT !.backups_to_delete =
                                            backups_to_delete(backups, keep)]
                /\ pc' = "confirm_cleanup"
                /\ ret' = NoRet
                /\ run' = NoRun
                /\ UNCHANGED cur
    /\ UNCHANGED <<save, root, now, max_backups>>
    /\ UNCHANGED restvars

\* Lines 619-621: anything but "y" cancels.
CleanupCancelled ==
    /\ pc = "confirm_cleanup"
    /\ CleanupReturn({}, {})
    /\ UNCHANGED <<save, root, now, max_backups, pre>>
    /\ UNCHANGED <<calls, edits, call>>
    /\ UNCHANGED restvars

\* Lines 623-629: the deletion loop, the entries in failed resisting.
CleanupConfirmed ==
    /\ pc = "confirm_cleanup"
    /\ LET toDelete == Range(sel.backups_to_delete)
       IN \E failed \in SUBSET toDelete :
            /\ root' = Restrict(root, DOMAIN root \ removed_by_loop(toDelete, failed))
            /\ CleanupReturn(toDelete, failed)
    /\ UNCHANGED <<save, now, max_backups, pre>>
    /\ UNCHANGED <<calls, edits, call>>
    /\ UNCHANGED restvars

\* ------------------------------------------------------------ input()
\* input() at lines 505, 592 and 618 stands outside every try block: when
\* standard input is closed it raises EOFError, which leaves the method.
ConfirmRaises ==
    /\ pc \in {"confirm_restore", "confirm_delete", "confirm_cleanup"}
    /\ pc' = "idle"
    /\ cur' = NoCur
    /\ sel' = NoSel
    /\ run' = NoRun
    /\ ret' = [NoRet EXCEPT !.op = call.op, !.status = "EOFError", !.at = pc]
    /\ UNCHANGED <<save, root, now, max_backups, pre>>
    /\ UNCHANGED <<calls, edits, call>>
    /\ UNCHANGED restvars

\* ----------------------------------------------------------- environment
\* The process is killed while an operation runs; the files stay as they
\* are and the next run starts from them.
Interrupt ==
    /\ pc # "idle"
    /\ pc' = "idle"
    /\ cur' = NoCur
    /\ sel' = NoSel
    /\ run' = NoRun
    /\ ret' = [NoRet EXCEPT !.op = "interrupted", !.status = "killed"]
    /\ UNCHANGED <<save, root, now, max_backups, pre>>
    /\ UNCHANGED <<calls, edits, call>>
    /\ UNCHANGED restvars

\* A second passes.  The clock is read once, at line 347, so the seconds
\* that pass while files are copied or removed show in the next call only.
Tick ==
    /\ pc \in {"idle", "confirm_restore", "confirm_delete", "confirm_cleanup"}
    /\ now < MaxTime
    /\ now' = now + 1
    /\ UNCHANGED <<save, root, max_backups, pc, cur, sel, ret, pre, run>>
    /\ UNCHANGED <<calls, edits, call>>
    /\ UNCHANGED restvars

\* The game writes or removes a save entry while no operation runs.
WriteSave(n, v) ==
    /\ pc = "idle"
    /\ edits < MaxEdits
    /\ edits' = edits + 1
    /\ call' = NoCall
    /\ UNCHANGED calls
    /\ v \in EntryVals(n) \cup {NoEntry}
    /\ v # save[n]
    /\ save' = [save EXCEPT ![n] = v]
    /\ ret' = NoRet
    /\ pre' = DOMAIN root
    /\ UNCHANGED <<root, now, max_backups, pc, cur, sel, run>>
    /\ UNCHANGED restvars

Next ==
    \/ \E d \in {"none", "d"}, x \in BOOLEAN, m \in BOOLEAN :
          CreateBackup(d, x, m)
    \/ \E n \in Names : CopyFile(n)
    \/ \E n \in Names : CopyFileOSError(n)
    \/ \E n \in Names : CopyFileRaises(n)
    \/ CreateFinishError
    \/ CreateFinish
    \/ \E op \in {"restore", "delete"}, i \in 1..MaxTime :
          CallWithSkipConfirmation(op, i)
    \/ \E i \in 0..(MaxTime + 1) : RestoreInvalid(i)
    \/ \E i \in 0..(MaxTime + 1) : RestoreBegin(i)
    \/ RestoreCancelled
    \/ RestoreConfirmed(FALSE)
    \/ RestoreRemove
    \/ \E R \in SUBSET Names : RestoreRemoveFails(R)
    \/ RestoreCopy
    \/ \E C \in SUBSET Names : RestoreCopyFails(C)
    \/ \E i \in 0..(MaxTime + 1) : DeleteInvalid(i)
    \/ \E i \in 0..(MaxTime + 1) : DeleteBegin(i)
    \/ DeleteCancelled
    \/ DeleteConfirmed
    \/ DeleteFails
    \/ \E k \in {NoneValue} \cup 0..MaxBackupsLimit : CleanupBackups(k)
    \/ CleanupCancelled
    \/ CleanupConfirmed
    \/ ConfirmRaises
    \/ Interrupt
    \/ Tick
    \/ \E n \in Names, v \in FileVals \cup {"dir", NoEntry} : WriteSave(n, v)

Spec == Init /\ [][Next]_vars

\* ================================================== DearPyGui front-end
\* backup_gui_dpg.py: the button callbacks run on the GUI thread, each
\* operation runs in a threading.Thread of its own.  The manager's own
\* state is left out here: only who is inside one of its methods matters.
ManagerIdle ==
    /\ save = [n \in Names |-> IF n = "a.txt" THEN "v1" ELSE NoEntry]
    /\ root = << >>
    /\ now = 1
    /\ max_backups = 1
    /\ pc = "idle"
    /\ cur = NoCur
    /\ sel = NoSel
    /\ ret = NoRet
    /\ pre = {}
    /\ run = NoRun
    /\ calls = 0
    /\ edits = 0
    /\ call = NoCall

DpgInit == ManagerIdle /\ NoGui

\* threading.Thread(target=..., daemon=True).start() on a free slot.
start_thread(op) ==
    \E t \in Threads :
        /\ threads[t].pc = "none"
        /\ \A u \in Threads : u < t => threads[u].pc # "none"
        /\ threads' = [threads EXCEPT ![t] = [pc |-> "started", op |-> op]]

\* create_backup (lines 442-476): the guard, then the thread is started.
\* While the modal confirm_dialog is open the buttons under it take no
\* click.
DpgCreateBackup ==
    /\ confirm_dialog = "none"
    /\ ~is_operation_running
    /\ start_thread("create")
    /\ UNCHANGED <<is_operation_running, confirm_dialog>>
    /\ UNCHANGED <<managervars, kivyvars, listvars, configvars>>

\* restore_backup, delete_backup, cleanup_backups (lines 478-607) up to
\* show_confirmation_dialog: the guard, then the dialog with its callback.
DpgAsk(op) ==
    /\ confirm_dialog = "none"
    /\ ~is_operation_running
    /\ confirm_dialog' = op
    /\ UNCHANGED <<is_operation_running, threads>>
    /\ UNCHANGED <<managervars, kivyvars, listvars, configvars>>

\* "Yes" (line 264): confirm_callback() starts the thread, the dialog goes.
DpgYes ==
    /\ confirm_dialog # "none"
    /\ start_thread(confirm_dialog)
    /\ confirm_dialog' = "none"
    /\ UNCHANGED is_operation_running
    /\ UNCHANGED <<managervars, kivyvars, listvars, configvars>>

\* "No" (line 265).
DpgNo ==
    /\ confirm_dialog # "none"
    /\ confirm_dialog' = "none"
    /\ UNCHANGED <<is_operation_running, threads>>
    /\ UNCHANGED <<managervars, kivyvars, listvars, configvars>>

\* The first statement of the thread: self.is_operation_running = True
\* (lines 451, 488, 539, 590).
DpgThreadSetsFlag(t) ==
    /\ threads[t].pc = "started"
    /\ is_operation_running' = TRUE
    /\ threads' = [threads EXCEPT ![t].pc = "flag_set"]
    /\ UNCHANGED confirm_dialog
    /\ UNCHANGED <<managervars, kivyvars, listvars, configvars>>

\* The thread calls the manager.  create_backup(description) and
\* cleanup_backups() are entered; restore_backup and delete_backup are
\* called with skip_confirmation=True, which raises TypeError at the call.
enters_manager(op) == op \in {"create", "cleanup"}

DpgThreadCalls(t) ==
    /\ threads[t].pc = "flag_set"
    /\ threads' = [threads EXCEPT ![t].pc =
                       IF enters_manager(threads[t].op)
                       THEN "in_manager" ELSE "finally"]
    /\ UNCHANGED <<is_operation_running, confirm_dialog>>
    /\ UNCHANGED <<managervars, kivyvars, listvars, configvars>>

\* The manager's method returns or raises into the thread's except clause.
DpgThreadReturns(t) ==
    /\ threads[t].pc = "in_manager"
    /\ threads' = [threads EXCEPT ![t].pc = "finally"]
    /\ UNCHANGED <<is_operation_running, confirm_dialog>>
    /\ UNCHANGED <<managervars, kivyvars, listvars, configvars>>

\* finally: self.is_operation_running = False (lines 472-474), thread ends.
DpgThreadFinally(t) ==
    /\ threads[t].pc = "finally"
    /\ is_operation_running' = FALSE
    /\ threads' = [threads EXCEPT ![t] = NoThread]
    /\ UNCHANGED confirm_dialog
    /\ UNCHANGED <<managervars, kivyvars, listvars, configvars>>

DpgNext ==
    \/ DpgCreateBackup
    \/ \E op \in {"restore", "delete", "cleanup"} : DpgAsk(op)
    \/ DpgYes
    \/ DpgNo
    \/ \E t \in Threads : DpgThreadSetsFlag(t)
    \/ \E t \in Threads : DpgThreadCalls(t)
    \/ \E t \in Threads : DpgThreadReturns(t)
    \/ \E t \in Threads : DpgThreadFinally(t)

DpgSpec == DpgInit /\ [][DpgNext]_vars

\* ======================================================= Kivy front-end
\* backup_gui_kivy.py: every BackupItemWidget keeps the backup_data built
\* by the last refresh_backup_list, 'index' included; the manager's
\* create_backup runs in a thread while the list stays clickable.  The
\* manager is seen here through the backup root only, one call at a step.
KivyInit ==
    /\ save = [n \in Names |-> IF n = "a.txt" THEN "v1" ELSE NoEntry]
    /\ \E S \in SUBSET SnapNames :
          root = [n \in S |-> Snapshot(PriorTree, "none", "none", TRUE)]
    /\ now = 1
    /\ max_backups \in 1..MaxBackupsLimit
    /\ pc = "idle"
    /\ cur = NoCur
    /\ sel = NoSel
    /\ ret = NoRet
    /\ pre = {}
    /\ run = NoRun
    /\ calls = 0
    /\ edits = 0
    /\ call = NoCall
    /\ NoDpg
    /\ NoList
    /\ NoConfigFile
    /\ backup_list = get_backup_list(root)
    /\ popup = NoPopup
    /\ backup_thread = FALSE
    /\ refresh_scheduled = FALSE

kivy_frame == <<save, max_backups, pc, cur, sel, pre, run, calls, edits>>

\* create_backup (lines 345-383) up to the first copy, which raises: the
\* directory made by copytree stays.
create_backup_interrupted(r, t) ==
    [n \in DOMAIN r \cup {t} |->
        IF n = t THEN Snapshot(EmptyTree, "none", "none", FALSE) ELSE r[n]]

\* create_backup (lines 345-399) with every copy and every deletion of
\* the retention cleanup succeeding.
create_backup_done(r, t, tree, keep) ==
    LET r1 == [n \in DOMAIN r \cup {t} |->
                 IF n = t THEN Snapshot(CopyOf(tree), "none", "none", TRUE)
                 ELSE r[n]]
    IN  Restrict(r1, DOMAIN r1 \ cleanup_selection(r1, keep))

\* refresh_backup_list (lines 626-708): from the Refresh button, the 30 s
\* Clock interval (line 332) or a Clock.schedule_once.  'index' is
\* backups.index(backup_path) + 1, the position in the list.
KivyRefreshBackupList ==
    /\ backup_list' = get_backup_list(root)
    /\ refresh_scheduled' = FALSE
    /\ backup_list' # backup_list \/ refresh_scheduled
    /\ UNCHANGED <<popup, backup_thread>>
    /\ UNCHANGED <<managervars, dpgvars, listvars, configvars>>

\* create_backup (lines 710-737): starts backup_thread.  An open popup is
\* modal, the progress bar is not.
KivyCreateBackup ==
    /\ popup = NoPopup
    /\ ~backup_thread
    /\ backup_thread' = TRUE
    /\ UNCHANGED <<backup_list, popup, refresh_scheduled>>
    /\ UNCHANGED <<managervars, dpgvars, listvars, configvars>>

\* backup_thread (lines 719-735): manager.create_backup(description), and
\* the refresh scheduled when it returned a path.
KivyBackupThread ==
    /\ backup_thread
    /\ backup_thread' = FALSE
    /\ IF backup_path_exists(root, now)
       THEN UNCHANGED <<root, refresh_scheduled>>
       ELSE \/ /\ root' = create_backup_done(root, now, save, max_backups)
               /\ refresh_scheduled' = TRUE
            \/ /\ root' = create_backup_interrupted(root, now)
               /\ UNCHANGED refresh_scheduled
    /\ UNCHANGED <<backup_list, popup>>
    /\ UNCHANGED <<kivy_frame, now, ret, call, dpgvars, listvars, configvars>>

\* BackupItemWidget.restore_backup / delete_backup (lines 109-113) and
\* BackupManagerGUI.restore_backup / delete_backup up to
\* ConfirmationPopup(...).open(): the popup shows backup_data['name'].
KivyAsk(op, i) ==
    /\ popup = NoPopup
    /\ i \in 1..Len(backup_list)
    /\ popup' = [op |-> op, name |-> backup_list[i], index |-> i]
    /\ UNCHANGED <<backup_list, backup_thread, refresh_scheduled>>
    /\ UNCHANGED <<managervars, dpgvars, listvars, configvars>>

\* "Yes": restore_thread / delete_thread call
\* manager.restore_backup(backup_data['index'], skip_confirmation=True)
\* (lines 752, 784), which raises TypeError; the except clause shows it.
KivyPopupYes ==
    /\ popup # NoPopup
    /\ popup' = NoPopup
    /\ call' = [op |-> popup.op, choice |-> popup.index, skip |-> TRUE]
    /\ ret' = [NoRet EXCEPT !.op = popup.op, !.status = "TypeError",
                            !.skip = TRUE]
    /\ UNCHANGED <<backup_list, backup_thread, refresh_scheduled>>
    /\ UNCHANGED <<kivy_frame, root, now, dpgvars, listvars, configvars>>

\* "No" (line 140).
KivyPopupNo ==
    /\ popup # NoPopup
    /\ popup' = NoPopup
    /\ call' = NoCall
    /\ ret' = NoRet
    /\ UNCHANGED <<backup_list, backup_thread, refresh_scheduled>>
    /\ UNCHANGED <<kivy_frame, root, now, dpgvars, listvars, configvars>>

\* A second passes.
KivyTick ==
    /\ now < MaxTime
    /\ now' = now + 1
    /\ UNCHANGED <<kivy_frame, root, ret, call, dpgvars, kivyvars, listvars, configvars>>

KivyNext ==
    \/ KivyRefreshBackupList
    \/ KivyCreateBackup
    \/ KivyBackupThread
    \/ \E op \in {"restore", "delete"}, i \in 1..MaxTime : KivyAsk(op, i)
    \/ KivyPopupYes
    \/ KivyPopupNo
    \/ KivyTick

KivySpec == KivyInit /\ [][KivyNext]_vars

\* ========================================================= list_backups
\* list_backups (lines 405-456) as a function of the names glob returns.
\* A name is "backup_" and a string over Chars, where "b" stands for a
\* further "backup_" inside the name.  The strings are kept to MaxNameLen
\* characters and the format "%Y%m%d_%H%M%S" is kept in shape: one
\* directive of fixed width before the "_" (as %Y, one digit here) and one
\* that strptime reads with or without its leading zero after it (as %m,
\* %d, %H, %M and %S, two digits here).
Chars == {"0", "1", "_", "x", "b"}
Digits == {"0", "1"}
Suffixes == UNION {[1..k -> Chars] : k \in 0..MaxNameLen}

\* The code point of the first character: digits sort before "_", "_"
\* before letters.
ord(c) ==
    IF c = "0" THEN 48 ELSE IF c = "1" THEN 49 ELSE IF c = "_" THEN 95
    ELSE IF c = "b" THEN 98 ELSE 120

\* a < b for Python strings.
RECURSIVE str_less(_, _)
str_less(a, b) ==
    IF b = << >> THEN FALSE
    ELSE IF a = << >> THEN TRUE
    ELSE IF ord(Head(a)) # ord(Head(b)) THEN ord(Head(a)) < ord(Head(b))
    ELSE str_less(Tail(a), Tail(b))

\* sorted(glob.glob(backup_dir / "backup_*"), reverse=True) on strings:
\* the paths share everything up to "backup_".
RECURSIVE sorted_reverse(_)
sorted_reverse(S) ==
    IF S = {} THEN << >>
    ELSE LET m == CHOOSE x \in S : \A y \in S : y = x \/ str_less(y, x)
         IN <<m>> \o sorted_reverse(S \ {m})

\* backup_name.replace("backup_", "") (line 420): every occurrence goes.
replace_backup(name) ==
    LET kept(c) == c # "b"
    IN  SelectSeq(name, kept)

\* datetime.datetime.strptime(timestamp_str, format) raises ValueError
\* unless the string is a digit, "_" and one or two digits.
strptime_raises(str) ==
    \/ Len(str) \notin {3, 4}
    \/ str[1] \notin Digits
    \/ str[2] # "_"
    \/ \E i \in 3..Len(str) : str[i] \notin Digits

\* The datetime strptime returns: the fields, the second with its leading
\* zero.
strptime(str) ==
    <<str[1], IF Len(str) = 3 THEN <<"0", str[3]>> ELSE <<str[3], str[4]>>>>

\* The body of the for loop (lines 415-454) for one name: the row printed
\* with the formatted time, or, after except ValueError, the bare name.
list_backups_row(name) ==
    LET timestamp_str == replace_backup(name)
    IN  IF strptime_raises(timestamp_str)
        THEN [name |-> name, time |-> << >>]
        ELSE [name |-> name, time |-> strptime(timestamp_str)]

\* list_backups: [] when there is no backup, else one row per name and the
\* list itself.
list_backups(names) ==
    LET backups == sorted_reverse(names)
    IN  [status |-> "returned", returned |-> backups,
         rows |-> [i \in 1..Len(backups) |-> list_backups_row(backups[i])]]

ListInit ==
    /\ ManagerIdle
    /\ NoDpg
    /\ NoKivy
    /\ NoConfigFile
    /\ \E q \in [1..MaxEntries -> Suffixes], k \in 0..MaxEntries :
          entries = {q[i] : i \in 1..k}
    /\ listed = NoListing

ListBackups ==
    /\ listed = NoListing
    /\ listed' = list_backups(entries)
    /\ UNCHANGED entries
    /\ UNCHANGED <<managervars, dpgvars, kivyvars, configvars>>

ListNext == ListBackups

ListSpec == ListInit /\ [][ListNext]_vars

\* ============================== load_games_config / save_games_config
\* The text of the file is the sequence of JSON tokens json.dump writes.
Tok(k, v) == [k |-> k, v |-> v]

json_scalar_unquoted(val) ==
    Tok(IF val.t = "bool" THEN "lit" ELSE "num", val.v)

\* json.dump of a scalar: a str in quotes, an int as its digits, a bool as
\* true or false.
json_scalar(val) ==
    Tok(IF val.t = "str" THEN "str" ELSE IF val.t = "int" THEN "num" ELSE "lit",
        val.v)

\* json.dump(config, f, indent=2, ensure_ascii=False) (line 115).
RECURSIVE json_dump(_)
RECURSIVE json_dump_members(_, _)
json_dump(val) ==
    IF val.t = "dict"
    THEN <<Tok("punct", "{")>> \o json_dump_members(val.items, DOMAIN val.items)
                              \o <<Tok("punct", "}")>>
    ELSE <<json_scalar(val)>>
json_dump_members(f, K) ==
    IF K = {} THEN << >>
    ELSE LET k == CHOOSE x \in K : TRUE
         IN  <<Tok("str", k), Tok("punct", ":")>> \o json_dump(f[k])
             \o (IF K = {k} THEN << >> ELSE <<Tok("punct", ",")>>)
             \o json_dump_members(f, K \ {k})

\* json.load (line 89): the value, what follows it, and whether the text
\* was well formed up to there.
ParseError == [ok |-> FALSE, value |-> NoConfig, rest |-> << >>]
RECURSIVE json_parse(_)
RECURSIVE json_parse_members(_, _)
json_parse(toks) ==
    IF toks = << >> THEN ParseError
    ELSE IF Head(toks) = Tok("punct", "{")
    THEN json_parse_members(Tail(toks), NoItems)
    ELSE IF Head(toks).k = "str"
    THEN [ok |-> TRUE, value |-> JScalar("str", Head(toks).v), rest |-> Tail(toks)]
    ELSE IF Head(toks).k = "num"
    THEN [ok |-> TRUE, value |-> JScalar("int", Head(toks).v), rest |-> Tail(toks)]
    ELSE IF Head(toks).k = "lit"
    THEN [ok |-> TRUE, value |-> JScalar("bool", Head(toks).v), rest |-> Tail(toks)]
    ELSE ParseError
json_parse_members(toks, items) ==
    IF toks = << >> THEN ParseError
    ELSE IF Head(toks) = Tok("punct", "}")
    THEN [ok |-> TRUE, value |-> JDict(items), rest |-> Tail(toks)]
    ELSE IF Head(toks) = Tok("punct", ",")
    THEN json_parse_members(Tail(toks), items)
    ELSE IF Head(toks).k = "str" /\ Len(toks) >= 3 /\ toks[2] = Tok("punct", ":")
    THEN LET r == json_parse(SubSeq(toks, 3, Len(toks)))
             key == Head(toks).v
         IN  IF r.ok
             THEN json_parse_members(r.rest,
                      [k \in DOMAIN items \cup {key} |->
                          IF k = key THEN r.value ELSE items[k]])
             ELSE ParseError
    ELSE ParseError
json_load(text) ==
    LET r == json_parse(text)
    IN  IF r.ok /\ r.rest = << >> THEN r ELSE ParseError

\* default_config of lines 92-104.
DefaultConfig ==
    JDict("games" :> JDict("example_game" :>
                       JDict("name" :> JScalar("str", "Example Game")
                          @@ "save_path" :> JScalar("str", "C:\\Users")
                          @@ "description" :> JScalar("str", "Example game configuration")))
       @@ "settings" :> JDict("default_max_backups" :> JScalar("int", "10")
                           @@ "auto_expand_paths" :> JScalar("bool", "true")))

\* The value returned from the except clause (line 109).
FallbackConfig ==
    JDict("games" :> JDict(NoItems)
       @@ "settings" :> JDict("default_max_backups" :> JScalar("int", "10")))

\* The configurations the model passes to save_games_config: dicts nested
\* up to MaxDepth over two keys and three scalars, "10" and 10 among them.
Keys == {"games", "name"}
Scalars == {JScalar("str", "10"), JScalar("int", "10"), JScalar("bool", "true")}
RECURSIVE Values(_)
Values(d) ==
    IF d = 0 THEN Scalars
    ELSE Scalars \cup
         {JDict(f) : f \in UNION {[K -> Values(d - 1)] : K \in SUBSET Keys}}
Configs == {c \in Values(MaxDepth) : c.t = "dict"}

ConfigInit ==
    /\ ManagerIdle
    /\ NoDpg
    /\ NoKivy
    /\ NoList
    /\ config_file \in [exists : BOOLEAN, text : {<< >>}, writable : BOOLEAN]
    /\ loaded = NoLoaded
    /\ saved = NoSaved

\* save_games_config (lines 111-117): open(config_path, 'w') and json.dump;
\* an exception of open is caught and printed, and the file stays as it was.
written(file, config) ==
    IF file.writable
    THEN [exists |-> TRUE, text |-> json_dump(config), writable |-> TRUE]
    ELSE file

SaveGamesConfig(config) ==
    /\ config_file' = written(config_file, config)
    /\ saved' = [config |-> config, wrote |-> config_file.writable]
    /\ loaded' = NoLoaded
    /\ UNCHANGED <<managervars, dpgvars, kivyvars, listvars>>

\* load_games_config (lines 84-109).
LoadGamesConfig ==
    /\ loaded = NoLoaded
    /\ IF config_file.exists
       THEN /\ loaded' = [status |-> "returned",
                          config |-> IF json_load(config_file.text).ok
                                     THEN json_load(config_file.text).value
                                     ELSE FallbackConfig,
                          created |-> FALSE, wrote |-> FALSE]
            /\ UNCHANGED config_file
       ELSE /\ config_file' = written(config_file, DefaultConfig)
            /\ loaded' = [status |-> "returned", config |-> DefaultConfig,
                          created |-> TRUE, wrote |-> config_file.writable]
    /\ UNCHANGED saved
    /\ UNCHANGED <<managervars, dpgvars, kivyvars, listvars>>

ConfigNext ==
    \/ \E c \in Configs : SaveGamesConfig(c)
    \/ LoadGamesConfig

ConfigSpec == ConfigInit /\ [][ConfigNext]_vars

\* ================================================================ claims
JustCreated == ret.op = "create" /\ ret.status = "returned"
Created == JustCreated /\ ret.path # NoPath

\* C1: if a file copy raises during create_backup, create_backup returns
\* None and the backup root holds no visible directory that was not there
\* before the call.
C1_NoPartialAfterCopyFailure ==
    (JustCreated /\ ret.copyRaised) =>
        (ret.path = NoPath /\ DOMAIN root \subseteq pre)

\* C2: in every state, every backup_* directory of the backup root holds a
\* complete copy, and while files are being copied the snapshot under
\* construction is not among the backup_* directories.
C2_VisibleSnapshotsComplete ==
    /\ \A n \in DOMAIN root : root[n].full
    /\ (pc = "copy" /\ cur.todo # {}) => cur.name \notin DOMAIN root

\* C3 as stated: after a create_backup that returns a path the backup root
\* holds at most max_backups backup_* entries, also when deletions of the
\* retention cleanup fail.
C3_AtMostMaxBackups ==
    Created => Cardinality(DOMAIN root) <= max_backups

\* C3 as amended: after a create_backup that returns a path the backup root
\* holds at most max_backups backup_* entries plus those whose deletion
\* failed in that call's retention cleanup.
C3_AtMostMaxBackupsPlusFailed ==
    Created => Cardinality(DOMAIN root) <= max_backups + Cardinality(ret.delFailed)

\* C3 witness: a create_backup returned a path, its cleanup had entries to
\* delete and one deletion failed.
C3_Witness ==
    /\ Created
    /\ Cardinality(pre) >= max_backups
    /\ ret.delFailed # {}
    /\ Cardinality(DOMAIN root) > max_backups

LastCreated(k) ==
    {run.created[i] : i \in (Len(run.created) - k + 1)..Len(run.created)}

C5_NoFilesNoChange ==
    (JustCreated /\ ret.srcEmpty) => (ret.path = NoPath /\ DOMAIN root = pre)

\* C5 witness: create_backup has returned None for a save directory without
\* files, the backup root holding snapshots.
C5_Witness ==
    /\ JustCreated /\ ret.srcEmpty /\ ret.caller = "user"
    /\ ret.path = NoPath
    /\ pre # {}
    /\ DOMAIN root = pre

\* C6: after a successful create_backup, whatever the backup root held
\* before, the backup list starts with the new snapshot.
C6_NewSnapshotListedFirst ==
    Created =>
        /\ get_backup_list(root) # <<>>
        /\ get_backup_list(root)[1] = ret.path

\* C7: after restore_backup returns True the entries of the save directory
\* are exactly the entries of the chosen snapshot, with the same contents.
C7_RestoreReplacesSource ==
    (ret.op = "restore" /\ ret.status = "returned" /\ ret.value) =>
        save = root[ret.chosen].tree

\* C8: restore_backup and delete_backup called with a numeric index and
\* skip_confirmation=True run to completion, and reach no prompt.
C8_SkipConfirmationCompletes ==
    (ret.op \in {"restore", "delete"} /\ ret.skip) => ret.status = "returned"

\* C9: the snapshot a successful create_backup returns holds the manifest
\* .backup_meta.json with move_method "moved" or "copied".
C9_ManifestWritten ==
    (Created /\ ret.path \in DOMAIN root) =>
        root[ret.path].meta \in {"moved", "copied"}

\* C10: when the rename that promotes the staged snapshot fails with EXDEV,
\* create_backup still returns the snapshot and its manifest records
\* move_method = "copied".
C10_ExdevFallbackCopied ==
    (Created /\ ret.exdev /\ ret.path \in DOMAIN root) =>
        root[ret.path].meta = "copied"

\* C11: when both the rename and the fallback move fail during promotion,
\* create_backup returns None and the backup root holds neither a snapshot
\* of the attempt nor a staging directory.
C11_MoveFailureLeavesNothing ==
    (JustCreated /\ ret.exdev /\ ret.movefails) =>
        (ret.path = NoPath /\ DOMAIN root \subseteq pre)

\* C12: restore_backup and delete_backup called with an index below 1 or
\* above the length of the backup list return failure and change neither
\* the save directory nor the backup root (no safety snapshot is made).
C12_InvalidIndexChangesNothing ==
    [][ ( /\ calls' = calls + 1
          /\ call'.op \in {"restore", "delete"}
          /\ ~call'.skip
          /\ \/ call'.choice < 1
             \/ call'.choice > Cardinality(DOMAIN root) )
        => ( /\ pc' = "idle"
             /\ ret'.op = call'.op
             /\ ret'.status = "returned"
             /\ ~ret'.value
             /\ save' = save
             /\ root' = root ) ]_vars

\* C12 witness: a restore or delete with an index one past the end of a
\* non-empty backup list has returned False.
C12_Witness ==
    /\ pc = "idle"
    /\ call.op \in {"restore", "delete"} /\ ~call.skip
    /\ pre # {}
    /\ call.choice = Cardinality(pre) + 1
    /\ ret.op = call.op /\ ret.status = "returned" /\ ~ret.value
    /\ DOMAIN root = pre

\* C13: in restore_backup no entry of the save directory is removed before
\* the safety create_backup has been invoked and has returned, with a path
\* or with None.
C13_SafetyBackupBeforeRemoval ==
    [][ (pc # "idle" /\ \E n \in Names : save[n] # NoEntry /\ save'[n] = NoEntry)
        => ( /\ pc = "restore_remove"
             /\ ret.op = "create"
             /\ ret.caller = "restore"
             /\ ret.status = "returned"
             /\ sel.current_backup = ret.path ) ]_vars

\* C13 witness: the safety backup holds the entries of the save directory
\* and the removal loop has emptied the save directory after it.
C13_Witness ==
    /\ pc = "restore_copy"
    /\ ret.op = "create" /\ ret.caller = "restore"
    /\ ret.path \in DOMAIN root
    /\ Entries(root[ret.path].tree) # {}
    /\ Entries(save) = {}

C15_RemovalDeletesEverySourceEntry ==
    pc = "restore_copy" => Entries(save) = {}

\* C16: a create_backup called on a save directory that holds no file
\* besides those the ignore patterns exclude finds zero files and returns
\* None.
C16_ZeroFileCheckSkipsIgnored ==
    (JustCreated /\ ret.caller = "user" /\ HasNoFiles(CopyOf(save))) =>
        ret.path = NoPath

\* C17: when a snapshot named after the current second exists, a
\* create_backup started in that second returns None and leaves the backup
\* root, the existing snapshot included, as it was.
C17_SameSecondKeepsExisting ==
    [][ ( /\ \/ calls' = calls + 1 /\ call'.op = "create"
             \/ pc = "confirm_restore" /\ pc' \in {"copy", "restore_remove"}
          /\ now \in DOMAIN root )
        => ( /\ root' = root
             /\ ret'.op = "create"
             /\ ret'.status = "returned"
             /\ ret'.path = NoPath ) ]_vars

\* C17 witness: a create_backup on a save directory with files has returned
\* None without a copy having raised, the snapshot of the current second
\* being there before and after.
C17_Witness ==
    /\ JustCreated /\ ret.caller = "user"
    /\ ret.path = NoPath
    /\ ~ret.srcEmpty /\ ~ret.copyRaised
    /\ now \in pre
    /\ DOMAIN root = pre
    /\ root[now] = Snapshot(PriorTree, "none", "none", TRUE)

\* C18: cleanup_backups(keep_count), keep_count defaulting to max_backups,
\* leaves the backup root alone when it holds at most keep_count snapshots,
\* else leaves exactly the keep_count most recent ones, and returns the
\* number of snapshots it removed.
C18_CleanupKeepsMostRecent ==
    (ret.op = "cleanup" /\ ret.status = "returned") =>
        LET keep == IF call.choice = NoneValue THEN max_backups ELSE call.choice
            before == SortDesc(pre)
        IN  /\ Len(before) <= keep => DOMAIN root = pre
            /\ Len(before) > keep =>
                   DOMAIN root = Range(SubSeq(before, 1, keep))
            /\ ret.count = Cardinality(pre \ DOMAIN root)

\* C19: after cleanup_backups or a create_backup with its
\* _cleanup_old_backups has returned, every snapshot selected for deletion
\* is gone except those whose own deletion failed.
C19_FailedDeletionDoesNotStopBatch ==
    (ret.status = "returned" /\ ret.op \in {"cleanup", "create"}) =>
        ret.selected \cap DOMAIN root = ret.delFailed

\* C19 witness: cleanup_backups has returned, the deletion of one selected
\* snapshot failed and an older selected snapshot, which the loop reaches
\* later, is gone.
C19_Witness ==
    /\ pc = "idle"
    /\ ret.op = "cleanup" /\ ret.status = "returned"
    /\ \E f \in ret.delFailed : \E b \in ret.selected :
          b < f /\ b \notin DOMAIN root /\ f \in DOMAIN root

\* C20: a delete_backup(index) that returns True has removed the snapshot
\* at position index of the most-recent-first list and nothing else; the
\* other snapshots and the save directory are as before.
C20_DeleteRemovesExactlyChosen ==
    [][ (pc = "confirm_delete" /\ pc' = "idle" /\ ret'.op = "delete" /\ ret'.value)
        => LET backups == SortDesc(DOMAIN root)
           IN  /\ call.op = "delete"
               /\ call.choice \in 1..Len(backups)
               /\ DOMAIN root' = DOMAIN root \ {backups[call.choice]}
               /\ \A n \in DOMAIN root' : root'[n] = root[n]
               /\ save' = save ]_vars

\* C20 witness: delete_backup(2) on a backup root with at least two
\* snapshots has returned True and the second most recent one is gone.
C20_Witness ==
    /\ pc = "idle"
    /\ ret.op = "delete" /\ ret.status = "returned" /\ ret.value
    /\ call.op = "delete" /\ call.choice = 2
    /\ Cardinality(pre) >= 2
    /\ DOMAIN root = pre \ {SortDesc(pre)[2]}

\* C21: every call of create_backup, restore_backup, delete_backup and
\* cleanup_backups with the arguments the methods take ends in a return;
\* no exception leaves the method, a failing confirmation included.
C21_NoExceptionEscapes ==
    (ret.op \in {"create", "restore", "delete", "cleanup"} /\ ~ret.skip) =>
        ret.status = "returned"

\* C22: a snapshot holds a description or a manifest only when its copy is
\* complete, and a snapshot that create_backup returns with its description
\* written holds the manifest, written after it.
C22_SidecarsAfterCopy ==
    /\ \A n \in DOMAIN root :
          (root[n].desc # "none" \/ root[n].meta # "none") => root[n].full
    /\ (Created /\ ret.path \in DOMAIN root /\ root[ret.path].desc # "none") =>
          root[ret.path].meta # "none"

\* C25: when create_backup returns a path after copying files, the last
\* progress report is (total, total): the count of copied files equals the
\* total the reports are made against.
C25_LastProgressIsTotal ==
    (Created /\ ret.progress[1] > 0) =>
        /\ ret.progress[1] <= ret.progress[2]
        /\ ret.progress[1] = ret.progress[2]

\* C26: when the copy step of restore_backup begins, the snapshot chosen
\* for the restore is still in the backup root.
C26_ChosenSnapshotSurvivesSafetyBackup ==
    pc = "restore_copy" => sel.chosen \in DOMAIN root

\* C27: the snapshot whose path create_backup returns is in the backup
\* root.
C27_ReturnedSnapshotExists ==
    Created => ret.path \in DOMAIN root

\* C28: a restore_backup whose copy loop has brought every entry of the
\* chosen snapshot into the save directory returns True, also when the
\* snapshot holds no regular file.
C28_RestoreTrueWhenEveryEntryCopied ==
    ( /\ ret.op = "restore" /\ ret.status = "returned"
      /\ ret.at = "restore_copy"
      /\ ret.chosen \in DOMAIN root
      /\ \A n \in Entries(root[ret.chosen].tree) :
             save[n] = root[ret.chosen].tree[n] )
    => ret.value

\* C30: in the DearPyGui front-end at most one worker thread is inside a
\* method of the manager at any time.
C30_AtMostOneWorkerInManager ==
    Cardinality({t \in Threads : threads[t].pc = "in_manager"}) <= 1

\* C29: when a restore or delete is confirmed in the Kivy front-end, the
\* index passed to the manager denotes, in the list the manager computes
\* at that moment, the snapshot whose name the popup showed.
C29_ConfirmedIndexDenotesShownSnapshot ==
    [][ (popup # NoPopup /\ popup' = NoPopup /\ call'.op = popup.op)
        => LET backups == get_backup_list(root)
           IN  /\ popup.index \in 1..Len(backups)
               /\ backups[popup.index] = popup.name ]_vars

\* The name create_backup gives a snapshot (line 348): strftime writes
\* every field at its full width.
C23_WellFormed(name) ==
    /\ Len(name) = 4
    /\ name[1] \in Digits
    /\ name[2] = "_"
    /\ name[3] \in Digits
    /\ name[4] \in Digits

\* C23: list_backups returns every backup_* entry, whatever its name; it
\* does not raise on a name that is not backup_<YYYYMMDD_HHMMSS>, and the
\* row of such a name carries no derived time.
C23_ListingSurvivesMalformedNames ==
    listed # NoListing =>
        /\ listed.status = "returned"
        /\ Len(listed.returned) = Cardinality(entries)
        /\ Range(listed.returned) = entries
        /\ Len(listed.rows) = Len(listed.returned)
        /\ \A i \in 1..Len(listed.rows) :
              /\ listed.rows[i].name = listed.returned[i]
              /\ ~C23_WellFormed(listed.rows[i].name) =>
                    listed.rows[i].time = << >>

====
